---- MODULE Spec2Model ----
(***************************************************************************)
(* Model of mcp_openapi_proxy/server_fastmcp.py: the two tools             *)
(* list_functions and call_function over an OpenAPI document.              *)
(*                                                                         *)
(* Representation.  A path is the sequence of its "/"-separated segments;  *)
(* a placeholder segment is the atom "{name}".  A tool name is the         *)
(* sequence of its "_"-separated tokens (the empty string is <<>>).  A     *)
(* Python dict with string keys is a function whose DOMAIN is the key set; *)
(* an ordered dict (paths, path item) is a sequence of key/value records.  *)
(* A value that may be None is a record with an isNone/isNull flag.        *)
(***************************************************************************)
EXTENDS Naturals, Sequences, FiniteSets, TLC

VARIABLES
    environ,    \* os.environ: the process-wide configuration
    document,   \* the specification document object handed out by fetch_openapi_spec
    pc,         \* "idle", or "returned" while a call_function result is being handed back
    listing,    \* the last value list_functions returned to the caller
    reply       \* the value call_function returned, with its arguments, the request it
                \* issued and what the upstream API answered to it

vars == <<environ, document, pc, listing, reply>>

\* ------------------------------------------------------------------ bounds

MaxOps == 2        \* method entries in a document, over all its path items
MaxDeclared == 2   \* parameters declared by one operation

\* ------------------------------------------------------- strings and dicts

NoField == "<absent>"   \* a key the dict does not have
EmptyDict == [n \in {} |-> TRUE]

Range(s) == {s[i] : i \in 1..Len(s)}

\* str.upper() / str.lower() on the method keys the documents use
Upper(method) ==
    CASE method = "get" -> "GET"
      [] method = "post" -> "POST"
      [] method = "options" -> "OPTIONS"
      [] OTHER -> method

Lower(method) ==
    CASE method = "GET" -> "get"
      [] method = "POST" -> "post"
      [] method = "OPTIONS" -> "options"
      [] OTHER -> method

\* f"{{{param_name}}}"
Placeholder(param_name) ==
    CASE param_name = "id" -> "{id}"
      [] param_name = "k" -> "{k}"
      [] param_name = "q" -> "{q}"
      [] param_name = "stream" -> "{stream}"
      [] OTHER -> "{auth}"

\* re.sub("[{}]", "", segment)
StripBraces(segment) ==
    CASE segment = "{id}" -> "id"
      [] segment = "{k}" -> "k"
      [] segment = "{q}" -> "q"
      [] OTHER -> segment

\* Python values a caller can pass: kind is the type, repr the text str() gives
IntV(text) == [kind |-> "int", repr |-> text]
StrV(text) == [kind |-> "str", repr |-> text]
BoolV(b) == [kind |-> "bool", repr |-> IF b THEN "True" ELSE "False"]

Str(value) == value.repr

Truthy(value) ==
    CASE value.kind = "bool" -> value.repr = "True"
      [] value.kind = "int" -> value.repr # "0"
      [] OTHER -> value.repr # ""

\* dict without one key (del d[key] / d.pop(key))
Without(d, key) == [n \in DOMAIN d \ {key} |-> d[n]]

None == [isNone |-> TRUE, d |-> EmptyDict]
Some(d) == [isNone |-> FALSE, d |-> d]

\* ------------------------------------------- helpers of mcp_openapi_proxy.utils

IsPrefix(s, t) == Len(s) <= Len(t) /\ SubSeq(t, 1, Len(s)) = s

\* utils.is_tool_whitelisted: no whitelist configured lets every path pass,
\* otherwise the path must start with one of the entries
is_tool_whitelisted(env, path) ==
    \/ env.TOOL_WHITELIST = <<>>
    \/ \E i \in 1..Len(env.TOOL_WHITELIST) : IsPrefix(env.TOOL_WHITELIST[i], path)

\* utils.normalize_tool_name on raw_name = "<METHOD> <path>": lower-case method,
\* then the path segments with separators and braces collapsed
normalize_tool_name(method, path) ==
    <<Lower(method)>> \o [i \in 1..Len(path) |-> StripBraces(path[i])]

\* utils.get_tool_prefix
get_tool_prefix(env) == env.TOOL_NAME_PREFIX

\* utils.build_base_url: the override wins over the document's server; "" is None
build_base_url(env, spec) ==
    IF env.SERVER_URL_OVERRIDE # "" THEN env.SERVER_URL_OVERRIDE ELSE spec.servers

\* utils.strip_parameters: no parameters give an empty mapping, otherwise the
\* mapping without the configured key
strip_parameters(env, parameters) ==
    IF parameters.isNone THEN Some(EmptyDict)
    ELSE IF env.STRIP_PARAM # "" /\ env.STRIP_PARAM \in DOMAIN parameters.d
         THEN Some(Without(parameters.d, env.STRIP_PARAM))
         ELSE parameters

\* utils.fetch_openapi_spec: the document, or None when the fetch fails
\* (fetched is the outcome of this fetch)
fetch_openapi_spec(doc, fetched) == [isNone |-> ~fetched, spec |-> doc]

\* ------------------------------------------------------------ both tools

\* the method test without .lower()
SupportedMethodCaseSensitive(method) == method \in {"get", "post", "put", "delete", "patch"}

\* method.lower() in ["get", "post", "put", "delete", "patch"]
SupportedMethod(method) == Lower(method) \in {"get", "post", "put", "delete", "patch"}

\* spec.get("paths", {})
Paths(spec) == IF spec.hasPaths THEN spec.paths ELSE <<>>

\* raw_name -> normalize_tool_name -> optional prefix
ToolName(prefix, method, path) ==
    IF prefix # "" THEN <<prefix>> \o normalize_tool_name(Upper(method), path)
    ELSE normalize_tool_name(Upper(method), path)

\* ---------------------------------------------------------- list_functions

\* the inputSchema built from operation.get("parameters", [])
InputSchema(operation) ==
    LET required == SelectSeq(operation.parameters, LAMBDA param : param.required)
    IN  [properties |-> {operation.parameters[i].name : i \in 1..Len(operation.parameters)},
         required |-> [i \in 1..Len(required) |-> required[i].name]]

\* the entry stored in functions[function_name]
Descriptor(function_name, path, method, operation) ==
    [name |-> function_name,
     description |-> operation.summary,
     path |-> path,
     method |-> Upper(method),
     original_name |-> <<Upper(method)>> \o path,
     inputSchema |-> InputSchema(operation)]

\* function_name in functions
Registered(functions, function_name) ==
    \E i \in 1..Len(functions) : functions[i].name = function_name

\* the inner loop: for method, operation in path_item.items()
RECURSIVE ListMethods(_, _, _, _, _)
ListMethods(prefix, path, ops, j, functions) ==
    IF j > Len(ops) THEN functions
    ELSE LET method == ops[j].method
             function_name == ToolName(prefix, method, path)
         IN  IF method = "" \/ ~SupportedMethod(method) \/ Registered(functions, function_name)
             THEN ListMethods(prefix, path, ops, j + 1, functions)
             ELSE ListMethods(prefix, path, ops, j + 1,
                      Append(functions, Descriptor(function_name, path, method, ops[j].operation)))

\* the outer loop: for path, path_item in paths.items()
RECURSIVE ListPaths(_, _, _, _)
ListPaths(env, paths, i, functions) ==
    IF i > Len(paths) THEN functions
    ELSE LET path == paths[i].path
             path_item == paths[i].item
         IN  IF path_item.isNull \/ path_item.ops = <<>>
             THEN ListPaths(env, paths, i + 1, functions)
             ELSE IF ~is_tool_whitelisted(env, path)
             THEN ListPaths(env, paths, i + 1, functions)
             ELSE ListPaths(env, paths, i + 1,
                      ListMethods(get_tool_prefix(env), path, path_item.ops, 1, functions))

\* list_functions: the list of descriptors that is serialised
list_functions(env, doc, fetched) ==
    LET spec == fetch_openapi_spec(doc, fetched)
    IN  IF env.OPENAPI_SPEC_URL = "" THEN <<>>
        ELSE IF spec.isNone THEN <<>>
        ELSE IF Paths(spec.spec) = <<>> THEN <<>>
        ELSE ListPaths(env, Paths(spec.spec), 1, <<>>)

\* ----------------------------------------------------------- call_function

NoFunctionDef == [status |-> "none", path |-> <<>>, method |-> "", pi |-> 0, oi |-> 0]
Fault == [status |-> "fault", path |-> <<>>, method |-> "", pi |-> 0, oi |-> 0]

\* the inner lookup loop: the index of the first method of the path item whose
\* name equals function_name, 0 when there is none
RECURSIVE FindInItem(_, _, _, _, _)
FindInItem(prefix, path, ops, j, function_name) ==
    IF j > Len(ops) THEN 0
    ELSE IF SupportedMethod(ops[j].method)
            /\ ToolName(prefix, ops[j].method, path) = function_name
         THEN j
         ELSE FindInItem(prefix, path, ops, j + 1, function_name)

\* the outer lookup loop; path_item.items() on a path item that is None raises
RECURSIVE FindFunction(_, _, _, _)
FindFunction(prefix, paths, i, function_name) ==
    IF i > Len(paths) THEN NoFunctionDef
    ELSE IF paths[i].item.isNull THEN Fault
    ELSE LET j == FindInItem(prefix, paths[i].path, paths[i].item.ops, 1, function_name)
         IN  IF j > 0
             THEN [status |-> "found", path |-> paths[i].path,
                   method |-> Upper(paths[i].item.ops[j].method), pi |-> i, oi |-> j]
             ELSE FindFunction(prefix, paths, i + 1, function_name)

\* operation["method"] = function_def["method"], on the operation inside the document
MarkOperation(doc, function_def) ==
    [doc EXCEPT !.paths[function_def.pi].item.ops[function_def.oi].operation.method =
                    function_def.method]

\* the dispatch without the whitelist re-check
CallAllowedAlways(env, path) == TRUE

\* if not is_tool_whitelisted(function_def["path"])
CallAllowed(env, path) == is_tool_whitelisted(env, path)

\* base_url.rstrip('/')
RStripSlash(base_url) == IF base_url = "http://o/" THEN "http://o" ELSE base_url

\* api_url = f"{base_url.rstrip('/')}/{path.lstrip('/')}"
ApiUrl(base_url, path) == <<RStripSlash(base_url)>> \o path

\* the stream key deleted whatever its value
DropStreamAlways(d) == Without(d, "stream")

\* if "stream" in parameters and parameters["stream"]: del parameters["stream"]
DropStream(d) ==
    IF "stream" \in DOMAIN d /\ Truthy(d["stream"]) THEN Without(d, "stream") ELSE d

\* path_params_in_openapi
PathParamsInOpenapi(operation) ==
    LET declared == SelectSeq(operation.parameters, LAMBDA param : param.in = "path")
    IN  [i \in 1..Len(declared) |-> declared[i].name]

\* the check stopping at the first missing parameter
MissingRequiredFirstOnly(operation, d) ==
    LET missing == SelectSeq(operation.parameters,
                       LAMBDA param : param.in = "path" /\ param.required
                                      /\ param.name \notin DOMAIN d)
    IN  IF missing = <<>> THEN <<>> ELSE <<missing[1].name>>

\* missing_required
MissingRequired(operation, d) ==
    LET missing == SelectSeq(operation.parameters,
                       LAMBDA param : param.in = "path" /\ param.required
                                      /\ param.name \notin DOMAIN d)
    IN  [i \in 1..Len(missing) |-> missing[i].name]

\* api_url.replace(old, new)
Replace(api_url, old, new) ==
    [i \in 1..Len(api_url) |-> IF api_url[i] = old THEN new ELSE api_url[i]]

\* for param_name in path_params_in_openapi: replace and pop
RECURSIVE SubstitutePathParams(_, _, _, _)
SubstitutePathParams(names, i, api_url, d) ==
    IF i > Len(names) THEN [api_url |-> api_url, parameters |-> d]
    ELSE IF names[i] \in DOMAIN d
         THEN SubstitutePathParams(names, i + 1,
                  Replace(api_url, Placeholder(names[i]), Str(d[names[i]])),
                  Without(d, names[i]))
         ELSE SubstitutePathParams(names, i + 1, api_url, d)

\* the arguments of requests.request
HttpRequest(method, api_url, request_params, request_body) ==
    [method |-> method,
     url |-> api_url,
     params |-> IF method = "GET" THEN request_params ELSE None,
     json |-> IF method # "GET" THEN request_body ELSE None]

\* the request sent again after the first attempt
SendTwice(requests, request) == Append(Append(requests, request), request)

\* the requests issued so far, with this one sent
Send(requests, request) == Append(requests, request)

Result(kind, function_def, missing, requests) ==
    [result |-> kind, function_def |-> function_def, missing |-> missing,
     requests |-> requests]

\* requests.request and raise_for_status: the body, or the failure as an error
Execute(function_def, request, upstream) ==
    Result(IF upstream = "ok" THEN "response.text" ELSE "API request failed",
           function_def, <<>>, Send(<<>>, request))

\* the request construction once the base URL is known
BuildAndSend(function_def, operation, base_url, parameters, upstream) ==
    LET api_url == ApiUrl(base_url, function_def.path)
    IN  IF ~parameters.isNone
        THEN LET d == DropStream(parameters.d)
                 path_params == PathParamsInOpenapi(operation)
                 missing_required == MissingRequired(operation, d)
                 sub == SubstitutePathParams(path_params, 1, api_url, d)
             IN  IF path_params # <<>> /\ missing_required # <<>>
                 THEN Result("Missing required path parameters", function_def,
                             missing_required, <<>>)
                 ELSE IF function_def.method = "GET"
                 THEN Execute(function_def,
                          HttpRequest(function_def.method, sub.api_url,
                                      Some(sub.parameters), None), upstream)
                 ELSE Execute(function_def,
                          HttpRequest(function_def.method, sub.api_url,
                                      Some(EmptyDict), Some(sub.parameters)), upstream)
        ELSE Execute(function_def,
                 HttpRequest(function_def.method, api_url, Some(EmptyDict), None), upstream)

\* the base URL checked before the whitelist
DispatchBaseUrlFirst(env, spec, function_def, operation, parameters, upstream) ==
    IF build_base_url(env, spec) = ""
    THEN Result("No base URL", function_def, <<>>, <<>>)
    ELSE IF ~CallAllowed(env, function_def.path)
    THEN Result("not allowed", function_def, <<>>, <<>>)
    ELSE BuildAndSend(function_def, operation, build_base_url(env, spec), parameters,
                      upstream)

\* from the whitelist re-check to the return
Dispatch(env, spec, function_def, operation, parameters, upstream) ==
    IF ~CallAllowed(env, function_def.path)
    THEN Result("not allowed", function_def, <<>>, <<>>)
    ELSE IF build_base_url(env, spec) = ""
    THEN Result("No base URL", function_def, <<>>, <<>>)
    ELSE BuildAndSend(function_def, operation, build_base_url(env, spec), parameters,
                      upstream)

\* call_function: what it returns, and the document as it leaves it
call_function(env, doc, fetched, function_name, parameters, upstream) ==
    LET spec == fetch_openapi_spec(doc, fetched)
        function_def == FindFunction(get_tool_prefix(env), Paths(doc), 1, function_name)
        operation == doc.paths[function_def.pi].item.ops[function_def.oi].operation
        early(kind) == [out |-> Result(kind, NoFunctionDef, <<>>, <<>>), document |-> doc]
    IN  IF function_name = <<>> THEN early("function_name is required")
        ELSE IF env.OPENAPI_SPEC_URL = "" THEN early("OPENAPI_SPEC_URL is not configured")
        ELSE IF spec.isNone THEN early("Failed to fetch")
        ELSE IF function_def.status = "fault" THEN early("fault")
        ELSE IF function_def.status = "none" THEN early("not found")
        ELSE [out |-> Dispatch(env, doc, function_def, operation,
                               strip_parameters(env, parameters), upstream),
              document |-> MarkOperation(doc, function_def)]

\* ------------------------------------------------------ documents and inputs

Op(summary, parameters) == [summary |-> summary, parameters |-> parameters, method |-> NoField]
Param(name, in, required) == [name |-> name, in |-> in, required |-> required]
Entry(method, operation) == [method |-> method, operation |-> operation]
NullItem == [isNull |-> TRUE, ops |-> <<>>]
Item(ops) == [isNull |-> FALSE, ops |-> ops]
Doc(servers, paths) == [servers |-> servers, hasPaths |-> TRUE, paths |-> paths]
NoPathsDoc == [servers |-> "http://s", hasPaths |-> FALSE, paths |-> <<>>]

\* the sequences of at most n pairwise different elements of S
RECURSIVE DistinctSeqs(_, _)
DistinctSeqs(S, n) ==
    IF n = 0 THEN {<<>>}
    ELSE LET shorter == DistinctSeqs(S, n - 1)
         IN  shorter \cup UNION {{Append(s, x) : x \in S \ Range(s)} :
                                    s \in {t \in shorter : Len(t) = n - 1}}

\* the parameters an operation on this path declares: its placeholders, the first required
DeclaredFor(path) ==
    LET names == SelectSeq(path, LAMBDA segment : StripBraces(segment) # segment)
    IN  [i \in 1..Len(names) |-> Param(StripBraces(names[i]), "path", i = 1)]

ListedPaths == {<<"items">>, <<"items", "{id}">>, <<"items", "id">>}
ListedMethods == {"get", "GET", "options"}

\* the path items over a path: None, {}, and up to MaxOps method entries
ItemsOf(path) ==
    {NullItem} \cup
    {Item([j \in 1..Len(ms) |-> Entry(ms[j], Op(ms[j], DeclaredFor(path)))]) :
        ms \in DistinctSeqs(ListedMethods, MaxOps)}

RECURSIVE OpsCount(_)
OpsCount(paths) ==
    IF paths = <<>> THEN 0 ELSE Len(Head(paths).item.ops) + OpsCount(Tail(paths))

\* the paths mappings of at most n of the paths, with at most MaxOps method
\* entries in all
RECURSIVE PathLists(_)
PathLists(n) ==
    IF n = 0 THEN {<<>>}
    ELSE LET shorter == PathLists(n - 1)
         IN  shorter \cup UNION {UNION {
                 {Append(s, [path |-> p, item |-> it]) :
                     it \in {x \in ItemsOf(p) : OpsCount(s) + Len(x.ops) <= MaxOps}} :
                 p \in ListedPaths \ {s[i].path : i \in 1..Len(s)}} :
                 s \in {t \in shorter : Len(t) = n - 1}}

ListedDocs == {NoPathsDoc} \cup {Doc("http://s", paths) : paths \in PathLists(Cardinality(ListedPaths))}

ListedEnvs ==
    [OPENAPI_SPEC_URL : {"http://spec"},
     TOOL_WHITELIST : {<<>>, <<(<<"items", "id">>)>>},
     TOOL_NAME_PREFIX : {"", "p"},
     SERVER_URL_OVERRIDE : {""},
     STRIP_PARAM : {""}]

ListedNames ==
    {<<>>, <<"nope">>, <<"options", "items">>} \cup
    {pre \o <<"get">> \o rest : pre \in {<<>>, <<"p">>},
                                rest \in {<<"items">>, <<"items", "id">>}}

ListedParameters == {None}

\* ------------------------------------------------------------------ actions

NoReply ==
    [function_name |-> <<>>, parameters |-> None, fetched |-> TRUE, upstream |-> "none",
     out |-> Result("", NoFunctionDef, <<>>, <<>>)]

\* the caller invokes list_functions and keeps what it returns
ListFunctions(fetched) ==
    /\ pc = "idle"
    /\ listing' = [valid |-> TRUE, fetched |-> fetched,
                   functions |-> list_functions(environ, document, fetched)]
    /\ UNCHANGED <<environ, document, pc, reply>>

\* the caller invokes call_function; upstream is what the HTTP API answers
CallFunction(function_name, parameters, fetched, upstream) ==
    /\ pc = "idle"
    /\ LET r == call_function(environ, document, fetched, function_name, parameters, upstream)
       IN  /\ reply' = [function_name |-> function_name, parameters |-> parameters,
                        fetched |-> fetched,
                        upstream |-> IF r.out.requests = <<>> THEN "none" ELSE upstream,
                        out |-> r.out]
           /\ document' = r.document
    /\ pc' = "returned"
    /\ UNCHANGED <<environ, listing>>

\* the hosting framework hands the result (or the raised exception) to the caller
Return ==
    /\ pc = "returned"
    /\ pc' = "idle"
    /\ reply' = NoReply
    /\ UNCHANGED <<environ, document, listing>>

InitCommon ==
    /\ pc = "idle"
    /\ listing = [valid |-> FALSE, fetched |-> TRUE, functions |-> <<>>]
    /\ reply = NoReply

\* documents of several paths and methods, under whitelists and prefixes
Init ==
    /\ environ \in ListedEnvs
    /\ document \in ListedDocs
    /\ InitCommon

Next ==
    \/ ListFunctions(TRUE)
    \/ \E function_name \in ListedNames, parameters \in ListedParameters :
           CallFunction(function_name, parameters, TRUE, "ok")
    \/ Return

Spec == Init /\ [][Next]_vars

\* --------------------------------- one operation, many parameter combinations

TemplatePath == <<"items", "{id}", "{k}">>

ParamDecls ==
    {Param("id", "path", TRUE),
     Param("k", "path", TRUE), Param("k", "path", FALSE),
     Param("q", "query", TRUE)}

\* parameter lists of at most MaxDeclared declarations with pairwise different names
ParamLists ==
    {ps \in DistinctSeqs(ParamDecls, MaxDeclared) :
        \A i, j \in 1..Len(ps) : i # j => ps[i].name # ps[j].name}

RequestDocs ==
    {Doc(servers, <<[path |-> TemplatePath,
                     item |-> Item(<<Entry(method, Op("one", ps))>>)]>>) :
        servers \in {"", "http://s"}, method \in {"get", "post"}, ps \in ParamLists}

RequestEnvs ==
    [OPENAPI_SPEC_URL : {"http://spec"},
     TOOL_WHITELIST : {<<>>, <<(<<"other">>)>>},
     TOOL_NAME_PREFIX : {""},
     SERVER_URL_OVERRIDE : {""},
     STRIP_PARAM : {"", "auth"}]
    \cup
    [OPENAPI_SPEC_URL : {"", "http://spec"}, TOOL_WHITELIST : {<<>>},
     TOOL_NAME_PREFIX : {""}, SERVER_URL_OVERRIDE : {"http://o/"}, STRIP_PARAM : {""}]

RequestNames == {<<>>, <<"get", "items", "id", "k">>, <<"post", "items", "id", "k">>}

Absent == [kind |-> "absent", repr |-> ""]

\* the caller's parameter mappings: any subset of the keys, a few values each
RequestParameters ==
    {None} \cup
    {Some([n \in {m \in DOMAIN f : f[m] # Absent} |-> f[n]]) :
        f \in [id : {Absent, StrV("{k}")},
               k : {Absent, IntV("7")},
               q : {Absent, StrV("x")},
               stream : {Absent, BoolV(TRUE), BoolV(FALSE)},
               auth : {Absent, StrV("s")}]}

InitReq ==
    /\ environ \in RequestEnvs
    /\ document \in RequestDocs
    /\ InitCommon

NextReq ==
    \/ \E fetched \in BOOLEAN : ListFunctions(fetched)
    \/ \E function_name \in RequestNames, parameters \in RequestParameters,
          upstream \in {"ok", "fail"} :
           CallFunction(function_name, parameters, TRUE, upstream)
    \/ \E function_name \in RequestNames : CallFunction(function_name, None, FALSE, "ok")
    \/ Return

SpecReq == InitReq /\ [][NextReq]_vars

\* --------------------------------------------------------------- properties

\* the (path index, method index) pairs of the document, in enumeration order
Positions ==
    UNION {{<<i, j>> : j \in 1..Len(Paths(document)[i].item.ops)} :
              i \in 1..Len(Paths(document))}

Before(a, b) == a[1] < b[1] \/ (a[1] = b[1] /\ a[2] < b[2])
PathAt(pos) == Paths(document)[pos[1]].path
MethodAt(pos) == Paths(document)[pos[1]].item.ops[pos[2]].method
OperationAt(pos) == Paths(document)[pos[1]].item.ops[pos[2]].operation
NameAt(pos) == ToolName(environ.TOOL_NAME_PREFIX, MethodAt(pos), PathAt(pos))

\* an operation of one of the five methods
Callable(pos) == Upper(MethodAt(pos)) \in {"GET", "POST", "PUT", "DELETE", "PATCH"}

\* an operation of one of the five methods on a path that passes the whitelist
Eligible(pos) == Callable(pos) /\ is_tool_whitelisted(environ, PathAt(pos))

\* an eligible operation whose name no earlier eligible operation has
Kept(pos) ==
    /\ Eligible(pos)
    /\ \A q \in Positions : Before(q, pos) /\ Eligible(q) => NameAt(q) # NameAt(pos)

KeptPositions == {pos \in Positions : Kept(pos)}

Returned == pc = "returned"
Out == reply.out
Matched == Returned /\ Out.function_def.status = "found"
Dispatched == Returned /\ Len(Out.requests) > 0

\* C1: every tool name list_functions returned resolves in call_function: the
\* call answers neither 'not found' nor 'not allowed', and the operation it
\* dispatches to has the (path, method) of the listed descriptor
C1_ListedNameResolves ==
    (listing.valid /\ Returned /\ reply.fetched) =>
        \A i \in 1..Len(listing.functions) :
            listing.functions[i].name = reply.function_name =>
                /\ Out.result \notin {"not found", "not allowed"}
                /\ Out.function_def.status = "found" =>
                       /\ Out.function_def.path = listing.functions[i].path
                       /\ Out.function_def.method = listing.functions[i].method

\* C2: when the path of the matched operation does not pass the whitelist,
\* list_functions has not listed that path, the call returns 'not allowed' or
\* 'not found', and no HTTP request is issued
C2_WhitelistConsistency ==
    (Matched /\ ~is_tool_whitelisted(environ, Out.function_def.path)) =>
        /\ Out.result \in {"not allowed", "not found"}
        /\ Out.requests = <<>>
        /\ listing.valid =>
               \A i \in 1..Len(listing.functions) :
                   listing.functions[i].path # Out.function_def.path

C2_Witness ==
    /\ Matched
    /\ ~is_tool_whitelisted(environ, Out.function_def.path)
    /\ Out.result = "not allowed"
    /\ listing.valid
    /\ Len(listing.functions) > 0

\* C3: list_functions returns, in enumeration order, exactly one descriptor for
\* each operation of the five methods on a whitelisted path whose name no
\* earlier such operation has; the names of one result are pairwise different
C3_ListIsFirstOfEachName ==
    (listing.valid /\ listing.fetched /\ environ.OPENAPI_SPEC_URL # "") =>
        /\ Len(listing.functions) = Cardinality(KeptPositions)
        /\ \A pos \in KeptPositions :
               LET k == 1 + Cardinality({q \in KeptPositions : Before(q, pos)})
               IN  /\ listing.functions[k].name = NameAt(pos)
                   /\ listing.functions[k].path = PathAt(pos)
                   /\ listing.functions[k].method = Upper(MethodAt(pos))
                   /\ listing.functions[k].description = OperationAt(pos).summary
        /\ \A i, j \in 1..Len(listing.functions) :
               i # j => listing.functions[i].name # listing.functions[j].name

C3_Witness ==
    /\ listing.valid
    /\ Len(listing.functions) > 0
    /\ \E pos \in Positions : Eligible(pos) /\ ~Kept(pos)

\* C8: call_function always returns a result: no exception leaves it, also when a
\* path item of the document is null
C8_NoUncaughtFault == Returned => Out.result # "fault"

\* C10: call_function leaves the specification document as it obtained it
C10_DocumentUnchanged == [][document' = document]_vars

\* the keys the caller passed, and those left after the strip key and a truthy
\* stream flag are removed
CallerKeys == IF reply.parameters.isNone THEN {} ELSE DOMAIN reply.parameters.d

SanitizedKeys ==
    {n \in CallerKeys :
        /\ n # environ.STRIP_PARAM
        /\ ~(n = "stream" /\ Truthy(reply.parameters.d[n]))}

\* the operations whose name is the requested one, and the first of them
MatchPositions == {pos \in Positions : Callable(pos) /\ NameAt(pos) = reply.function_name}
FirstMatch == CHOOSE pos \in MatchPositions : \A q \in MatchPositions : ~Before(q, pos)

DeclaredAt(pos) == {OperationAt(pos).parameters[i] : i \in 1..Len(OperationAt(pos).parameters)}
PathNamesAt(pos) == {param.name : param \in {x \in DeclaredAt(pos) : x.in = "path"}}
MissingAt(pos) ==
    {param.name : param \in {x \in DeclaredAt(pos) :
                                x.in = "path" /\ x.required /\ x.name \notin SanitizedKeys}}

MatchedAt == <<Out.function_def.pi, Out.function_def.oi>>
BaseUrl == build_base_url(environ, document)

\* what is left of the caller's parameters for the query string or the body
Remaining ==
    [n \in SanitizedKeys \ PathNamesAt(MatchedAt) |-> reply.parameters.d[n]]

\* C4 (as claimed): a matched operation with a required path parameter absent from
\* the sanitized parameters returns an error naming every missing parameter and
\* issues no request
C4_MissingAlwaysNamed ==
    (Matched /\ is_tool_whitelisted(environ, Out.function_def.path)
       /\ MissingAt(MatchedAt) # {}) =>
        /\ Out.result = "Missing required path parameters"
        /\ Range(Out.missing) = MissingAt(MatchedAt)
        /\ Out.requests = <<>>

\* C4 (amended): with a required path parameter absent the call issues no request
\* and returns an error; when the path passes the whitelist and a base URL is
\* available the error names every missing parameter
C4_MissingNamedGivenBaseUrl ==
    (Matched /\ MissingAt(MatchedAt) # {}) =>
        /\ Out.requests = <<>>
        /\ Out.result \in {"not allowed", "No base URL", "Missing required path parameters"}
        /\ (is_tool_whitelisted(environ, Out.function_def.path) /\ BaseUrl # "") =>
               /\ Out.result = "Missing required path parameters"
               /\ Range(Out.missing) = MissingAt(MatchedAt)

C4_Witness ==
    /\ Matched
    /\ reply.parameters.isNone
    /\ Out.result = "Missing required path parameters"
    /\ Cardinality(MissingAt(MatchedAt)) = 2
    /\ Out.requests = <<>>

\* C5: a call issues at most one HTTP request: none when a step before the
\* request fails (or an exception ends the call), exactly one otherwise, and
\* then it returns the upstream body or the upstream failure
C5_AtMostOneRequest ==
    Returned =>
        /\ Len(Out.requests) <= 1
        /\ Len(Out.requests) = 1 <=> Out.result \in {"response.text", "API request failed"}
        /\ Len(Out.requests) = 0 <=>
               \/ Out.result = "fault"
               \/ reply.function_name = <<>>
               \/ environ.OPENAPI_SPEC_URL = ""
               \/ ~reply.fetched
               \/ MatchPositions = {}
               \/ ~is_tool_whitelisted(environ, PathAt(FirstMatch))
               \/ BaseUrl = ""
               \/ MissingAt(FirstMatch) # {}

C5_Witness ==
    /\ Returned
    /\ Len(Out.requests) = 1
    /\ Out.result = "API request failed"

\* C6: every declared path parameter the caller passed has its string value at
\* its placeholder in the dispatched URL, and is in neither the query nor the body
C6_PathSubstitution ==
    Dispatched =>
        \A n \in PathNamesAt(MatchedAt) \cap SanitizedKeys :
            /\ \A i \in 1..Len(Out.function_def.path) :
                   Out.function_def.path[i] = Placeholder(n) =>
                       Out.requests[1].url[i + 1] = Str(reply.parameters.d[n])
            /\ n \notin DOMAIN Out.requests[1].params.d
            /\ n \notin DOMAIN Out.requests[1].json.d

\* C7: a GET carries exactly the remaining parameters as its query and no body;
\* any other method carries exactly them as its JSON body and no query
C7_Placement ==
    Dispatched =>
        IF Out.requests[1].method = "GET"
        THEN Out.requests[1].params = Some(Remaining) /\ Out.requests[1].json = None
        ELSE Out.requests[1].json = Some(Remaining) /\ Out.requests[1].params = None

C7_Witness ==
    /\ Dispatched
    /\ Out.requests[1].method = "GET"
    /\ CallerKeys = {"stream", "q"}
    /\ Truthy(reply.parameters.d["stream"])
    /\ DOMAIN Out.requests[1].params.d = {"q"}

UpstreamResult == IF reply.upstream = "ok" THEN "response.text" ELSE "API request failed"

\* C9 (as claimed): the call reports the earliest failing step, a missing
\* required path parameter being checked before the base URL
C9_SpecOrder ==
    (Returned /\ Out.result # "fault") =>
        Out.result =
            IF reply.function_name = <<>> THEN "function_name is required"
            ELSE IF environ.OPENAPI_SPEC_URL = "" THEN "OPENAPI_SPEC_URL is not configured"
            ELSE IF ~reply.fetched THEN "Failed to fetch"
            ELSE IF MatchPositions = {} THEN "not found"
            ELSE IF ~is_tool_whitelisted(environ, PathAt(FirstMatch)) THEN "not allowed"
            ELSE IF MissingAt(FirstMatch) # {} THEN "Missing required path parameters"
            ELSE IF BaseUrl = "" THEN "No base URL"
            ELSE UpstreamResult

\* C9 (amended): the call reports the earliest failing step, the base URL being
\* checked before the required path parameters
C9_CodeOrder ==
    (Returned /\ Out.result # "fault") =>
        Out.result =
            IF reply.function_name = <<>> THEN "function_name is required"
            ELSE IF environ.OPENAPI_SPEC_URL = "" THEN "OPENAPI_SPEC_URL is not configured"
            ELSE IF ~reply.fetched THEN "Failed to fetch"
            ELSE IF MatchPositions = {} THEN "not found"
            ELSE IF ~is_tool_whitelisted(environ, PathAt(FirstMatch)) THEN "not allowed"
            ELSE IF BaseUrl = "" THEN "No base URL"
            ELSE IF MissingAt(FirstMatch) # {} THEN "Missing required path parameters"
            ELSE UpstreamResult

C9_Witness ==
    /\ Returned
    /\ Out.result = "No base URL"
    /\ MissingAt(FirstMatch) # {}

====
